---- MODULE Spec2Model ----
(***************************************************************************)
(* A state-machine model of mmlib/molecule.py: the data classes Atom and   *)
(* Torsion with their setters, and the Molecule aggregate with its         *)
(* constructor, its public methods and the setters of the Bond, Angle and  *)
(* Outofplane records it keeps.                                            *)
(*                                                                         *)
(* Conventions.  A Python object is a function from attribute names to     *)
(* values; `self.x = v` is SetAttr(self, "x", v), which also creates an    *)
(* attribute that did not exist.  Mutable arrays whose identity matters    *)
(* (Atom.coords and Atom.pcoords) are references into `heap`.  Python      *)
(* strings that the code indexes are sequences of one-character strings.   *)
(* Real numbers are modelled on an integer lattice: lengths in picometres  *)
(* or lattice units, energies as integers.                                 *)
(***************************************************************************)
EXTENDS Integers, Sequences, FiniteSets, TLC

VARIABLES
    heap,    \* Atom: the array objects, heap[r] is the contents of reference r
    atom,    \* Atom: the Atom object
    aerr,    \* Atom: outcome of the last Atom operation ("none" or an exception)
    aop,     \* Atom: the last operation and its arguments
    apre,    \* Atom: the attributes and array contents before the last operation
    nops,    \* Atom, Torsion: number of operations applied so far
    tor,     \* Torsion: the Torsion object
    top,     \* Torsion: the last operation and its arguments
    tpre,    \* Torsion: the Torsion object before the last operation
    file,    \* Molecule: the input file, its name and the atom lines it holds
    mol,     \* Molecule: the Molecule object
    pc,      \* Molecule: "new" before construction, "ready", or "exit" after sys.exit
    trace,   \* Molecule: the steps the last handler call ran, in order
    out,     \* Molecule: what the last handler call printed
    last,    \* Molecule: the last handler call and its selector
    moves,   \* Molecule: number of caller operations other than evaluations so far
    topoRuns \* Molecule: number of topology steps run since the object was made

atomVars == <<heap, atom, aerr, aop, apre>>
torVars == <<tor, top, tpre>>
molVars == <<file, mol, pc, trace, out, last, moves, topoRuns>>

\* Number of setter calls explored after a construction.
MaxOps == 3

\* Number of array objects the caller of Atom can hold.
MaxObjs == 2

(***************************************************************************)
(* Python object and array helpers                                         *)
(***************************************************************************)
SetAttr(obj, name, v) ==
    [k \in DOMAIN obj \cup {name} |-> IF k = name THEN v ELSE obj[k]]

\* numpy.zeros(3)
Zeros3 == <<0, 0, 0>>

\* Python floats that may be non-finite: a number, float('inf'), or nan
Num(x) == [k |-> "num", v |-> x]
Inf == [k |-> "inf", v |-> 0]
NaN == [k |-> "nan", v |-> 0]

\* a[index] = v for a Python index 0..2
SetItem(a, index, v) == [a EXCEPT ![index + 1] = v]

CoordVals == {0, 1}
Vec3 == {<<x, y, z>> : x \in CoordVals, y \in CoordVals, z \in CoordVals}

(***************************************************************************)
(* Strings: str.capitalize and str.islower on one-character strings        *)
(***************************************************************************)
Lower == {"c", "h", "l", "o", "t"}

Capitalize(ch) ==
    CASE ch = "c" -> "C"
      [] ch = "h" -> "H"
      [] ch = "l" -> "L"
      [] ch = "o" -> "O"
      [] ch = "t" -> "T"
      [] OTHER -> ch

IsLower(ch) == ch \in Lower

\* Atom.__init__ lines 11-12: the element of an atom type
ElementOf(at_type) ==
    IF IsLower(at_type[Len(at_type)])
    THEN <<Capitalize(at_type[1]), at_type[Len(at_type)]>>
    ELSE <<Capitalize(at_type[1])>>

ATypes == {<<"C", "T">>, <<"H", "C">>, <<"C", "l">>, <<"O", "H">>}
Elements == {ElementOf(t) : t \in ATypes}

\* param.get_cov_rad: covalent radius of an element, in picometres
GetCovRad(element) ==
    CASE element = <<"H">> -> 37
      [] element = <<"C">> -> 77
      [] element = <<"O">> -> 73
      [] element = <<"C", "l">> -> 99

\* math.sqrt on the perfect squares the model uses
Sqrt(x) == CHOOSE r \in 0..x : r * r = x

EpsVals == {1, 4, 9}

(***************************************************************************)
(* class Atom                                                              *)
(***************************************************************************)
\* Atom.__init__(at_type, at_coords, at_charge, at_ro, at_eps, at_mass);
\* at_coords is a reference to the caller's array.
NewAtom(at_type, at_coords, at_charge, at_ro, at_eps, at_mass) ==
    [attype |-> at_type,
     element |-> ElementOf(at_type),
     coords |-> at_coords,
     charge |-> at_charge,
     ro |-> at_ro,
     eps |-> at_eps,
     sreps |-> Sqrt(at_eps),
     mass |-> at_mass,
     covrad |-> GetCovRad(ElementOf(at_type)),
     vels |-> Zeros3,
     accs |-> Zeros3,
     pcoords |-> at_coords,
     pvels |-> Zeros3,
     paccs |-> Zeros3,
     e_nonbonded |-> 0,
     e_bonded |-> 0,
     e_bound |-> 0,
     g_nonbonded |-> Zeros3,
     g_bonded |-> Zeros3]

NoOp == [op |-> "init", index |-> 0, arg |-> 0]

\* The idle values of the variables a specification does not use.
AtomIdle ==
    /\ heap = <<>>
    /\ atom = [attype |-> <<>>]
    /\ aerr = "none"
    /\ aop = NoOp
    /\ apre = [atom |-> atom, heap |-> heap]

TorIdle ==
    /\ tor = [at1 |-> 0]
    /\ top = NoOp
    /\ tpre = tor

MolIdle ==
    /\ file = [infile |-> <<>>, lines |-> <<>>]
    /\ mol = [infile |-> <<>>]
    /\ pc = "idle"
    /\ trace = <<>>
    /\ out = <<>>
    /\ last = [call |-> "none", arg |-> ""]
    /\ moves = 0
    /\ topoRuns = 0

InitAtom ==
    /\ \E c \in {<<0, 0, 0>>, <<1, 0, 1>>} : heap = <<c>>
    /\ \E t \in ATypes, e \in EpsVals :
          atom = NewAtom(t, 1, -1, 2, e, 12)
    /\ aerr = "none"
    /\ aop = NoOp
    /\ apre = [atom |-> atom, heap |-> heap]
    /\ nops = 0
    /\ TorIdle
    /\ MolIdle

\* A setter `self.<field> = v` that completes.
AtomSet(name, field, v) ==
    /\ nops < MaxOps
    /\ nops' = nops + 1
    /\ apre' = [atom |-> atom, heap |-> heap]
    /\ atom' = SetAttr(atom, field, v)
    /\ heap' = heap
    /\ aerr' = "none"
    /\ aop' = [op |-> name, index |-> 0, arg |-> v]
    /\ UNCHANGED <<torVars, molVars>>

set_attype == \E v \in ATypes : AtomSet("set_attype", "attype", v)

\* set_coords(coords): the argument is an array object of the caller, either
\* one it already holds or a newly made one.
set_coords ==
    \/ \E r \in 1..Len(heap) :
          /\ nops < MaxOps
          /\ nops' = nops + 1
          /\ apre' = [atom |-> atom, heap |-> heap]
          /\ atom' = SetAttr(atom, "coords", r)
          /\ heap' = heap
          /\ aerr' = "none"
          /\ aop' = [op |-> "set_coords", index |-> 0, arg |-> r]
          /\ UNCHANGED <<torVars, molVars>>
    \/ \E c \in Vec3 :
          /\ nops < MaxOps
          /\ Len(heap) < MaxObjs
          /\ nops' = nops + 1
          /\ apre' = [atom |-> atom, heap |-> heap]
          /\ heap' = Append(heap, c)
          /\ atom' = SetAttr(atom, "coords", Len(heap) + 1)
          /\ aerr' = "none"
          /\ aop' = [op |-> "set_coords", index |-> 0, arg |-> Len(heap) + 1]
          /\ UNCHANGED <<torVars, molVars>>

\* set_coord(index, coord): the right-hand side of line 38 is the name
\* `coords`, which is bound neither in the method nor in the module, so
\* evaluating it raises NameError before anything is stored.
set_coord ==
    \E index \in 0..2, coord \in CoordVals :
        /\ nops < MaxOps
        /\ nops' = nops + 1
        /\ apre' = [atom |-> atom, heap |-> heap]
        /\ atom' = atom
        /\ heap' = heap
        /\ aerr' = "NameError"
        /\ aop' = [op |-> "set_coord", index |-> index, arg |-> coord]
        /\ UNCHANGED <<torVars, molVars>>

set_mass == \E v \in {1, 12} : AtomSet("set_mass", "mass", v)

set_charge == \E v \in {-1, 1} : AtomSet("set_charge", "charge", v)

set_ro == \E v \in {1, 2} : AtomSet("set_ro", "ro", v)

set_eps == \E v \in EpsVals : AtomSet("set_eps", "eps", v)

set_element == \E v \in Elements : AtomSet("set_element", "element", v)

set_covrad == \E v \in {37, 77} : AtomSet("set_covrad", "covrad", v)

set_vels == \E v \in {Zeros3, <<1, 0, 0>>} : AtomSet("set_vels", "vels", v)

set_accs == \E v \in {Zeros3, <<0, 1, 0>>} : AtomSet("set_accs", "accs", v)

\* The driver updates one component of the atom's current position in place:
\* atom.coords[index] = v, a store into the array object atom.coords is bound to.
coords_setitem ==
    \E index \in 0..2, v \in CoordVals :
        /\ nops < MaxOps
        /\ nops' = nops + 1
        /\ apre' = [atom |-> atom, heap |-> heap]
        /\ heap' = [heap EXCEPT ![atom.coords] = SetItem(@, index, v)]
        /\ atom' = atom
        /\ aerr' = "none"
        /\ aop' = [op |-> "coords_setitem", index |-> index, arg |-> v]
        /\ UNCHANGED <<torVars, molVars>>

NextAtom ==
    \/ set_attype
    \/ set_coords
    \/ set_coord
    \/ set_mass
    \/ set_charge
    \/ set_ro
    \/ set_eps
    \/ set_element
    \/ set_covrad
    \/ set_vels
    \/ set_accs
    \/ coords_setitem

(***************************************************************************)
(* class Torsion                                                           *)
(***************************************************************************)
\* Torsion.__init__(at1, at2, at3, at4, t_ijkl, v_n, gamma, nfold, paths)
NewTorsion(at1, at2, at3, at4, t_ijkl, v_n, gamma, nfold, paths) ==
    [at1 |-> at1,
     at2 |-> at2,
     at3 |-> at3,
     at4 |-> at4,
     t_ijkl |-> t_ijkl,
     v_n |-> v_n,
     gam |-> gamma,
     n |-> nfold,
     paths |-> paths,
     e |-> 0,
     g |-> 0]

NFolds == {1, 2, 3}

InitTorsion ==
    /\ \E nfold \in NFolds, v_n \in {1, 2}, paths \in {1, 4} :
          tor = NewTorsion(0, 1, 2, 3, 0, v_n, 0, nfold, paths)
    /\ top = NoOp
    /\ tpre = tor
    /\ nops = 0
    /\ AtomIdle
    /\ MolIdle

\* A Torsion setter `self.<field> = v`.
TorSet(name, field, v) ==
    /\ nops < MaxOps
    /\ nops' = nops + 1
    /\ tpre' = tor
    /\ tor' = SetAttr(tor, field, v)
    /\ top' = [op |-> name, index |-> 0, arg |-> v]
    /\ UNCHANGED <<atomVars, molVars>>

tor_set_at1 == \E v \in 0..1 : TorSet("set_at1", "at1", v)

tor_set_at2 == \E v \in 1..2 : TorSet("set_at2", "at2", v)

tor_set_at3 == \E v \in 2..3 : TorSet("set_at3", "at3", v)

tor_set_at4 == \E v \in 3..4 : TorSet("set_at4", "at4", v)

tor_set_t_ijkl == \E v \in {0, 60} : TorSet("set_t_ijkl", "t_ijkl", v)

tor_set_v_n == \E v \in {1, 2} : TorSet("set_v_n", "v_n", v)

tor_set_gamma == \E v \in {0, 180} : TorSet("set_gamma", "gam", v)

\* set_nfold stores into the attribute `nfold`; the constructor's periodicity
\* is the attribute `n`.
tor_set_nfold == \E v \in NFolds : TorSet("set_nfold", "nfold", v)

tor_set_paths == \E v \in {1, 4} : TorSet("set_paths", "paths", v)

NextTorsion ==
    \/ tor_set_at1
    \/ tor_set_at2
    \/ tor_set_at3
    \/ tor_set_at4
    \/ tor_set_t_ijkl
    \/ tor_set_v_n
    \/ tor_set_gamma
    \/ tor_set_nfold
    \/ tor_set_paths

(***************************************************************************)
(* Geometry kernel on the integer lattice (geomcalc).  One lattice unit is *)
(* 135 pm.  Atom indices are 1..n_atoms; index i is Python's index i - 1.  *)
(***************************************************************************)
Sub(p, q) == <<p[1] - q[1], p[2] - q[2], p[3] - q[3]>>

Dot(p, q) == p[1] * q[1] + p[2] * q[2] + p[3] * q[3]

Cross(p, q) ==
    <<p[2] * q[3] - p[3] * q[2], p[3] * q[1] - p[1] * q[3], p[1] * q[2] - p[2] * q[1]>>

\* squared distance between two points
D2(p, q) == Dot(Sub(q, p), Sub(q, p))

\* the angle at vertex b, as the dot product of a - b and c - b
AngleOf(a, b, c) == Dot(Sub(a, b), Sub(c, b))

\* the dihedral between planes (a, b, c) and (b, c, d), as the dot product of
\* the two plane normals
DihedralOf(a, b, c, d) ==
    Dot(Cross(Sub(b, a), Sub(c, b)), Cross(Sub(c, b), Sub(d, c)))

\* the displacement of a from the plane of b, c, d, as a triple product
OutOfPlaneOf(a, b, c, d) == Dot(Sub(a, b), Cross(Sub(c, b), Sub(d, b)))

(***************************************************************************)
(* Parameter service (param): keyed lookups, keys order-independent        *)
(***************************************************************************)
IsH(t) == t[1] = "H"

\* (r_eq, k_b) of a bond between two atom types
BondParam(t1, t2) ==
    [r_eq |-> 1, k_b |-> IF IsH(t1) \/ IsH(t2) THEN 1 ELSE 2]

\* (a_eq, k_a) of an angle over three atom types
AngleParam(t1, t2, t3) ==
    [a_eq |-> 0, k_a |-> IF IsH(t1) \/ IsH(t3) THEN 1 ELSE 2]

\* the Fourier terms (v_n, gamma, n) of a torsion over four atom types: two
\* terms when both central atoms are heavy atoms, one otherwise
TorsionParam(t1, t2, t3, t4) ==
    IF ~IsH(t2) /\ ~IsH(t3)
    THEN <<[v_n |-> 2, gamma |-> 0, n |-> 1], [v_n |-> 1, gamma |-> 1, n |-> 2]>>
    ELSE <<[v_n |-> 1, gamma |-> 0, n |-> 3]>>

\* v_n of an out-of-plane term
OutofplaneParam(t1, t2, t3, t4) == IF IsH(t2) THEN 1 ELSE 2

\* van der Waals ro and eps, and the mass, of an atom type
VdwRo(t) == IF IsH(t) THEN 1 ELSE 2
VdwEps(t) == IF IsH(t) THEN 1 ELSE 4
MassOf(t) == IF IsH(t) THEN 1 ELSE 12

(***************************************************************************)
(* Loops that collect records: a loop over 1..n is a sequence of the       *)
(* sequences its iterations append, concatenated in order                  *)
(***************************************************************************)
RECURSIVE Concat(_)
Concat(ss) == IF Len(ss) = 0 THEN <<>> ELSE Head(ss) \o Concat(Tail(ss))

(***************************************************************************)
(* class Bond, Angle, Outofplane                                           *)
(***************************************************************************)
NewBond(at1, at2, r_ij, r_eq, k_b) ==
    [at1 |-> at1, at2 |-> at2, r_ij |-> r_ij, r_eq |-> r_eq, k_b |-> k_b,
     e |-> 0, g |-> 0]

NewAngle(at1, at2, at3, a_ijk, a_eq, k_a) ==
    [at1 |-> at1, at2 |-> at2, at3 |-> at3, a_ijk |-> a_ijk, a_eq |-> a_eq,
     k_a |-> k_a, e |-> 0, g |-> 0]

NewOutofplane(at1, at2, at3, at4, o_ijkl, v_n) ==
    [at1 |-> at1, at2 |-> at2, at3 |-> at3, at4 |-> at4, o_ijkl |-> o_ijkl,
     v_n |-> v_n, e |-> 0, g |-> 0]

(***************************************************************************)
(* Topology builder (topology).  Each step maps a Molecule object to the   *)
(* Molecule object it leaves.                                              *)
(***************************************************************************)
Xyz(m, i) == m.atoms[i].coords
Typ(m, i) == m.atoms[i].attype
Atoms(m) == 1..m.n_atoms

\* the proximity test: distance <= 1.2 * (covrad_i + covrad_j), squared, with
\* the distance in lattice units of 135 pm and the radii in pm
Bonded(m, i, j) ==
    135 * 135 * 25 * D2(Xyz(m, i), Xyz(m, j))
        <= 36 * (m.atoms[i].covrad + m.atoms[j].covrad) * (m.atoms[i].covrad + m.atoms[j].covrad)

\* 1. bond graph: the neighbours of every atom
get_bond_graph(m) ==
    SetAttr(m, "bond_graph",
        [i \in Atoms(m) |-> {j \in Atoms(m) : j # i /\ Bonded(m, i, j)}])

Nbrs(m, i) == m.bond_graph[i]

\* 2. bonds: one Bond per edge i < j
get_bonds(m) ==
    LET mk(i, j) == LET prm == BondParam(Typ(m, i), Typ(m, j))
                    IN NewBond(i, j, D2(Xyz(m, i), Xyz(m, j)), prm.r_eq, prm.k_b)
        new == Concat([i \in 1..m.n_atoms |-> Concat([j \in 1..m.n_atoms |->
                   IF i < j /\ j \in Nbrs(m, i) THEN <<mk(i, j)>> ELSE <<>>])])
        bonds == m.bonds \o new
    IN [m EXCEPT !.bonds = bonds, !.n_bonds = Len(bonds)]

\* 3. angles: one Angle(a, b, c) per vertex b and pair of neighbours a < c
get_angles(m) ==
    LET mk(a, b, c) == LET prm == AngleParam(Typ(m, a), Typ(m, b), Typ(m, c))
                       IN NewAngle(a, b, c, AngleOf(Xyz(m, a), Xyz(m, b), Xyz(m, c)),
                                   prm.a_eq, prm.k_a)
        new == Concat([b \in 1..m.n_atoms |-> Concat([a \in 1..m.n_atoms |->
               Concat([c \in 1..m.n_atoms |->
                   IF a \in Nbrs(m, b) /\ c \in Nbrs(m, b) /\ a < c
                   THEN <<mk(a, b, c)>> ELSE <<>>])])])
        angles == m.angles \o new
    IN [m EXCEPT !.angles = angles, !.n_angles = Len(angles)]

\* 4. torsions: for every bond (b, c), every neighbour a of b (a # c) and
\* every neighbour d of c (d # b, d # a), one Torsion(a, b, c, d) per Fourier
\* term of the parameter table
get_torsions(m) ==
    LET mk(a, b, c, d) ==
            LET prm == TorsionParam(Typ(m, a), Typ(m, b), Typ(m, c), Typ(m, d))
                paths == (Cardinality(Nbrs(m, b)) - 1) * (Cardinality(Nbrs(m, c)) - 1)
            IN [k \in DOMAIN prm |->
                  NewTorsion(a, b, c, d,
                             DihedralOf(Xyz(m, a), Xyz(m, b), Xyz(m, c), Xyz(m, d)),
                             prm[k].v_n, prm[k].gamma, prm[k].n, paths)]
        new == Concat([b \in 1..m.n_atoms |-> Concat([c \in 1..m.n_atoms |->
               IF ~(b < c /\ c \in Nbrs(m, b)) THEN <<>>
               ELSE Concat([a \in 1..m.n_atoms |-> Concat([d \in 1..m.n_atoms |->
                   IF a \in Nbrs(m, b) /\ a # c /\ d \in Nbrs(m, c) /\ d # b /\ d # a
                   THEN mk(a, b, c, d) ELSE <<>>])])])])
        torsions == m.torsions \o new
    IN [m EXCEPT !.torsions = torsions, !.n_torsions = Len(torsions)]

\* 5. out-of-plane terms: one Outofplane(a, b, c, d) per atom b with exactly
\* three neighbours a < c < d
get_outofplanes(m) ==
    LET mk(a, b, c, d) ==
            NewOutofplane(a, b, c, d,
                OutOfPlaneOf(Xyz(m, a), Xyz(m, b), Xyz(m, c), Xyz(m, d)),
                OutofplaneParam(Typ(m, a), Typ(m, b), Typ(m, c), Typ(m, d)))
        new == Concat([b \in 1..m.n_atoms |->
               IF Cardinality(Nbrs(m, b)) # 3 THEN <<>>
               ELSE Concat([a \in 1..m.n_atoms |-> Concat([c \in 1..m.n_atoms |->
                    Concat([d \in 1..m.n_atoms |->
                        IF Nbrs(m, b) = {a, c, d} /\ a < c /\ c < d
                        THEN <<mk(a, b, c, d)>> ELSE <<>>])])])])
        oops == m.outofplanes \o new
    IN [m EXCEPT !.outofplanes = oops, !.n_outofplanes = Len(oops)]

\* 6. nonbonded exclusions: the pairs covered by a Bond, by the ends of an
\* Angle, or by the ends of a Torsion
get_nonints(m) ==
    [m EXCEPT !.nonints =
        {{m.bonds[k].at1, m.bonds[k].at2} : k \in DOMAIN m.bonds}
        \cup {{m.angles[k].at1, m.angles[k].at3} : k \in DOMAIN m.angles}
        \cup {{m.torsions[k].at1, m.torsions[k].at4} : k \in DOMAIN m.torsions}]

\* the pairs of distinct atoms
AllPairs(m) == {{i, j} : i \in Atoms(m), j \in Atoms(m)} \ {{i} : i \in Atoms(m)}

(***************************************************************************)
(* Sums and n x 3 arrays                                                   *)
(***************************************************************************)
RECURSIVE SumSeq(_)
SumSeq(s) == IF Len(s) = 0 THEN 0 ELSE Head(s) + SumSeq(Tail(s))

Sq(x) == x * x

\* numpy.zeros((n, 3))
ZerosN3(n) == [i \in 1..n |-> Zeros3]

AddArr(A, B) == [i \in DOMAIN A |-> [k \in 1..3 |-> A[i][k] + B[i][k]]]

\* the current coordinates of all atoms
Coords(m) == [i \in 1..m.n_atoms |-> m.atoms[i].coords]

\* X with component k of atom i displaced by d
Displace(X, i, k, d) == [X EXCEPT ![i][k] = @ + d]

(***************************************************************************)
(* Energy engine (energy): the category energies at coordinates X          *)
(***************************************************************************)
\* a periodic function of an integer angle, with values -1, 0, 1
PCos(x) == ((x + 1) % 3) - 1

BondE(b, X) == b.k_b * Sq(D2(X[b.at1], X[b.at2]) - b.r_eq)
AngleE(a, X) == a.k_a * Sq(AngleOf(X[a.at1], X[a.at2], X[a.at3]) - a.a_eq)
TorsionE(t, X) ==
    (t.v_n * (1 + PCos(t.n * DihedralOf(X[t.at1], X[t.at2], X[t.at3], X[t.at4]) - t.gam)))
        \div t.paths
OutofplaneE(o, X) == o.v_n * Sq(OutOfPlaneOf(X[o.at1], X[o.at2], X[o.at3], X[o.at4]))

EBondsAt(m, X) == SumSeq([k \in DOMAIN m.bonds |-> BondE(m.bonds[k], X)])
EAnglesAt(m, X) == SumSeq([k \in DOMAIN m.angles |-> AngleE(m.angles[k], X)])
ETorsionsAt(m, X) == SumSeq([k \in DOMAIN m.torsions |-> TorsionE(m.torsions[k], X)])
EOutofplanesAt(m, X) ==
    SumSeq([k \in DOMAIN m.outofplanes |-> OutofplaneE(m.outofplanes[k], X)])

VdwE(m, i, j, X) ==
    m.atoms[i].sreps * m.atoms[j].sreps
        * Sq(Sq(m.atoms[i].ro + m.atoms[j].ro) - D2(X[i], X[j]))
ElstE(m, i, j, X) ==
    (12 * m.atoms[i].charge * m.atoms[j].charge) \div (m.dielectric * (1 + D2(X[i], X[j])))

\* the double loop over pairs i < j that scores every pair not excluded
Scored(m, i, j) == i < j /\ {i, j} \notin m.nonints

EVdwAt(m, X) ==
    SumSeq([i \in DOMAIN X |->
        SumSeq([j \in DOMAIN X |-> IF Scored(m, i, j) THEN VdwE(m, i, j, X) ELSE 0])])
EElstAt(m, X) ==
    SumSeq([i \in DOMAIN X |->
        SumSeq([j \in DOMAIN X |-> IF Scored(m, i, j) THEN ElstE(m, i, j, X) ELSE 0])])

\* the restraining wall: zero inside the boundary and for boundtype 'none'
EBoundAt(m, X) ==
    IF m.boundtype = "none" THEN 0
    ELSE SumSeq([i \in DOMAIN X |->
            IF D2(X[i], m.origin) > Sq(m.bound)
            THEN m.k_box * Sq(D2(X[i], m.origin) - Sq(m.bound))
            ELSE 0])

KinTypes == {"nokinetic", "current"}

EKinetic(m) ==
    SumSeq([i \in 1..m.n_atoms |->
        m.atoms[i].mass * Dot(m.atoms[i].vels, m.atoms[i].vels)]) \div 2

RefreshBond(m, b) ==
    [b EXCEPT !.r_ij = D2(Xyz(m, b.at1), Xyz(m, b.at2)),
              !.e = BondE(b, Coords(m))]
RefreshAngle(m, a) ==
    [a EXCEPT !.a_ijk = AngleOf(Xyz(m, a.at1), Xyz(m, a.at2), Xyz(m, a.at3)),
              !.e = AngleE(a, Coords(m))]
RefreshTorsion(m, t) ==
    [t EXCEPT !.t_ijkl = DihedralOf(Xyz(m, t.at1), Xyz(m, t.at2), Xyz(m, t.at3),
                                    Xyz(m, t.at4)),
              !.e = TorsionE(t, Coords(m))]
RefreshOutofplane(m, o) ==
    [o EXCEPT !.o_ijkl = OutOfPlaneOf(Xyz(m, o.at1), Xyz(m, o.at2), Xyz(m, o.at3),
                                      Xyz(m, o.at4)),
              !.e = OutofplaneE(o, Coords(m))]

get_e_bonds(m) ==
    [m EXCEPT !.bonds = [k \in DOMAIN m.bonds |-> RefreshBond(m, m.bonds[k])],
              !.e_bonds = EBondsAt(m, Coords(m))]

get_e_angles(m) ==
    [m EXCEPT !.angles = [k \in DOMAIN m.angles |-> RefreshAngle(m, m.angles[k])],
              !.e_angles = EAnglesAt(m, Coords(m))]

get_e_torsions(m) ==
    [m EXCEPT !.torsions = [k \in DOMAIN m.torsions |-> RefreshTorsion(m, m.torsions[k])],
              !.e_torsions = ETorsionsAt(m, Coords(m))]

get_e_outofplanes(m) ==
    [m EXCEPT !.outofplanes =
                  [k \in DOMAIN m.outofplanes |-> RefreshOutofplane(m, m.outofplanes[k])],
              !.e_outofplanes = EOutofplanesAt(m, Coords(m))]

get_e_nonbonded(m) ==
    [m EXCEPT !.e_vdw = EVdwAt(m, Coords(m)), !.e_elst = EElstAt(m, Coords(m))]

get_e_bound(m) == [m EXCEPT !.e_bound = EBoundAt(m, Coords(m))]

\* for a recognized kintype; an unrecognized one is fatal (see StepFails)
get_e_kinetic(m, kintype) ==
    [m EXCEPT !.e_kinetic = IF kintype = "current" THEN EKinetic(m) ELSE 0]

get_e_totals(m) ==
    LET e_bonded == m.e_bonds + m.e_angles + m.e_torsions + m.e_outofplanes
        e_nonbonded == m.e_vdw + m.e_elst
        e_potential == e_bonded + e_nonbonded + m.e_bound
    IN [m EXCEPT !.e_bonded = e_bonded,
                 !.e_nonbonded = e_nonbonded,
                 !.e_potential = e_potential,
                 !.e_total = m.e_kinetic + e_potential]

(***************************************************************************)
(* Gradient engine (gradient): the derivative of a category energy with    *)
(* respect to every coordinate, as the central difference on the lattice   *)
(***************************************************************************)
CategoryE(cat, m, X) ==
    CASE cat = "bonds" -> EBondsAt(m, X)
      [] cat = "angles" -> EAnglesAt(m, X)
      [] cat = "torsions" -> ETorsionsAt(m, X)
      [] cat = "outofplanes" -> EOutofplanesAt(m, X)
      [] cat = "vdw" -> EVdwAt(m, X)
      [] cat = "elst" -> EElstAt(m, X)
      [] cat = "bound" -> EBoundAt(m, X)

Grad(cat, m) ==
    [i \in 1..m.n_atoms |->
        [k \in 1..3 |-> CategoryE(cat, m, Displace(Coords(m), i, k, 1))
                          - CategoryE(cat, m, Displace(Coords(m), i, k, -1))]]

\* the pairs of distinct atoms scored in nonbonded evaluation
NonbondedPairs(m) ==
    {{i, j} : <<i, j>> \in {q \in Atoms(m) \X Atoms(m) : Scored(m, q[1], q[2])}}

get_g_bonds(m) == [m EXCEPT !.g_bonds = Grad("bonds", m)]
get_g_angles(m) == [m EXCEPT !.g_angles = Grad("angles", m)]
get_g_torsions(m) == [m EXCEPT !.g_torsions = Grad("torsions", m)]
get_g_outofplanes(m) == [m EXCEPT !.g_outofplanes = Grad("outofplanes", m)]
get_g_nonbonded(m) == [m EXCEPT !.g_vdw = Grad("vdw", m), !.g_elst = Grad("elst", m)]
\* Molecule.__init__ makes no g_bound array: this step creates the attribute
get_g_bound(m) == SetAttr(m, "g_bound", Grad("bound", m))

\* the finite-difference fallback: every category array by differences
get_g_numerical(m) ==
    get_g_bound(get_g_nonbonded(get_g_outofplanes(get_g_torsions(
        get_g_angles(get_g_bonds(m))))))

get_g_totals(m) ==
    LET g_bonded == AddArr(AddArr(AddArr(m.g_bonds, m.g_angles), m.g_torsions),
                           m.g_outofplanes)
        g_nonbonded == AddArr(m.g_vdw, m.g_elst)
    IN [m EXCEPT !.g_bonded = g_bonded,
                 !.g_nonbonded = g_nonbonded,
                 !.g_total = AddArr(AddArr(g_bonded, g_nonbonded), m.g_bound)]

(***************************************************************************)
(* Derived quantities: temperature (energy), pressure and virial           *)
(* (gradient), volume (geomcalc)                                           *)
(***************************************************************************)
\* temperature from the kinetic energy of the current velocities,
\* 2 KE / (3 N) in units of the Boltzmann constant; nan without atoms
energy_get_temperature(m) ==
    [m EXCEPT !.temp = IF m.n_atoms = 0 THEN NaN
                       ELSE Num((2 * EKinetic(m)) \div (3 * m.n_atoms))]

\* the virial: the pairwise force-times-distance sum of the nonbonded pairs
Virial(m) ==
    LET g == AddArr(Grad("vdw", m), Grad("elst", m))
    IN 0 - SumSeq([i \in 1..m.n_atoms |-> Dot(Xyz(m, i), g[i])])

\* pressure from the temperature, the virial and the volume; zero in an
\* unbounded volume
gradient_get_pressure(m) ==
    [m EXCEPT !.virial = Virial(m),
              !.press = IF m.temp.k = "nan" THEN NaN
                        ELSE IF m.vol.k = "inf" THEN Num(0)
                        ELSE IF m.vol.v = 0 THEN NaN
                        ELSE Num((3 * m.n_atoms * m.temp.v + Virial(m)) \div (3 * m.vol.v))]

\* volume of the boundary geometry: a sphere of radius bound (in units of
\* pi/3), a cube of half-edge bound, unbounded otherwise
geomcalc_get_volume(m) ==
    [m EXCEPT !.vol = IF m.boundtype = "sphere" THEN Num(4 * m.bound * m.bound * m.bound)
                      ELSE IF m.boundtype = "cube" THEN Num(8 * m.bound * m.bound * m.bound)
                      ELSE Inf]

(***************************************************************************)
(* File input (fileio)                                                     *)
(***************************************************************************)
\* get_geom: the atom count of the file, and one Atom per atom line appended
\* to the atom list, its mass added to the molecular mass
get_geom(m, fs) ==
    [m EXCEPT !.atoms = @ \o [i \in DOMAIN fs.lines |->
                            NewAtom(fs.lines[i].attype, fs.lines[i].coords,
                                    fs.lines[i].charge, VdwRo(fs.lines[i].attype),
                                    VdwEps(fs.lines[i].attype), MassOf(fs.lines[i].attype))],
              !.n_atoms = Len(fs.lines),
              !.mass = @ + SumSeq([i \in DOMAIN fs.lines |-> MassOf(fs.lines[i].attype)])]

\* get_prm: the atoms of a parameter file; the files of the model list no
\* bonded terms
get_prm(m, fs) == get_geom(m, fs)

(***************************************************************************)
(* class Molecule                                                          *)
(***************************************************************************)
\* str.split(sep) on a string given as its tokens, separators being tokens
RECURSIVE Split(_, _)
Split(s, sep) ==
    IF \A i \in DOMAIN s : s[i] # sep THEN <<s>>
    ELSE LET i == CHOOSE j \in DOMAIN s : s[j] = sep /\ \A h \in 1..(j - 1) : s[h] # sep
         IN <<SubSeq(s, 1, i - 1)>> \o Split(SubSeq(s, i + 1, Len(s)), sep)

LastOf(s) == s[Len(s)]

\* The machine state a handler threads through its steps: the Molecule object,
\* the steps run, the lines printed, whether sys.exit was called, and the file.
Machine(m, fs) == [m |-> m, tr |-> <<>>, out |-> <<>>, status |-> "ok", fs |-> fs]

Call(fn, arg) == [fn |-> fn, arg |-> arg]

TopologySteps ==
    {"topology.get_bond_graph", "topology.get_bonds", "topology.get_angles",
     "topology.get_torsions", "topology.get_outofplanes", "topology.get_nonints"}

GradientSteps ==
    {"gradient.get_g_bonds", "gradient.get_g_angles", "gradient.get_g_torsions",
     "gradient.get_g_outofplanes", "gradient.get_g_nonbonded", "gradient.get_g_bound",
     "gradient.get_g_numerical", "gradient.get_g_totals"}

\* what a call of a library function does to the Molecule object
StepEffect(c, m, fs) ==
    CASE c.fn = "fileio.get_geom" -> get_geom(m, fs)
      [] c.fn = "fileio.get_prm" -> get_prm(m, fs)
      [] c.fn = "topology.get_bond_graph" -> get_bond_graph(m)
      [] c.fn = "topology.get_bonds" -> get_bonds(m)
      [] c.fn = "topology.get_angles" -> get_angles(m)
      [] c.fn = "topology.get_torsions" -> get_torsions(m)
      [] c.fn = "topology.get_outofplanes" -> get_outofplanes(m)
      [] c.fn = "topology.get_nonints" -> get_nonints(m)
      [] c.fn = "energy.get_e_bonds" -> get_e_bonds(m)
      [] c.fn = "energy.get_e_angles" -> get_e_angles(m)
      [] c.fn = "energy.get_e_torsions" -> get_e_torsions(m)
      [] c.fn = "energy.get_e_outofplanes" -> get_e_outofplanes(m)
      [] c.fn = "energy.get_e_nonbonded" -> get_e_nonbonded(m)
      [] c.fn = "energy.get_e_bound" -> get_e_bound(m)
      [] c.fn = "energy.get_e_kinetic" -> get_e_kinetic(m, c.arg)
      [] c.fn = "energy.get_e_totals" -> get_e_totals(m)
      [] c.fn = "energy.get_temperature" -> energy_get_temperature(m)
      [] c.fn = "gradient.get_pressure" -> gradient_get_pressure(m)
      [] c.fn = "geomcalc.get_volume" -> geomcalc_get_volume(m)
      [] c.fn = "gradient.get_g_bonds" -> get_g_bonds(m)
      [] c.fn = "gradient.get_g_angles" -> get_g_angles(m)
      [] c.fn = "gradient.get_g_torsions" -> get_g_torsions(m)
      [] c.fn = "gradient.get_g_outofplanes" -> get_g_outofplanes(m)
      [] c.fn = "gradient.get_g_nonbonded" -> get_g_nonbonded(m)
      [] c.fn = "gradient.get_g_bound" -> get_g_bound(m)
      [] c.fn = "gradient.get_g_numerical" -> get_g_numerical(m)
      [] c.fn = "gradient.get_g_totals" -> get_g_totals(m)

\* print(...) followed by sys.exit()
Fatal(st, msg) == [st EXCEPT !.out = Append(@, msg), !.status = "exit"]

\* energy.get_e_kinetic is fatal for an unrecognized kinetic-energy type and
\* reports the type
StepFails(c) == c.fn = "energy.get_e_kinetic" /\ c.arg \notin KinTypes

StepMessage(c) == <<"Error: kinetic type (", c.arg, ") not recognized!">>

\* One call of a library function from a method body.  Nothing runs after
\* sys.exit.
RunStep(st, c) ==
    IF st.status # "ok" THEN st
    ELSE IF StepFails(c) THEN Fatal([st EXCEPT !.tr = Append(@, c.fn)], StepMessage(c))
    ELSE [st EXCEPT !.m = StepEffect(c, st.m, st.fs), !.tr = Append(@, c.fn)]

\* the calls of a method body, in order
RECURSIVE RunSteps(_, _)
RunSteps(st, cs) ==
    IF Len(cs) = 0 THEN st ELSE RunSteps(RunStep(st, Head(cs)), Tail(cs))

\* Molecule.read_in_xyzq, read_in_prm
read_in_xyzq(st) == RunSteps(st, <<Call("fileio.get_geom", "")>>)

read_in_prm(st) == RunSteps(st, <<Call("fileio.get_prm", "")>>)

\* get_topology with the fifth call a repeat of get_torsions
get_topology_torsions_twice(st) ==
    RunSteps(st, <<Call("topology.get_bond_graph", ""),
                   Call("topology.get_bonds", ""),
                   Call("topology.get_angles", ""),
                   Call("topology.get_torsions", ""),
                   Call("topology.get_torsions", ""),
                   Call("topology.get_nonints", "")>>)

\* get_topology with the exclusions collected before the torsions exist
get_topology_nonints_early(st) ==
    RunSteps(st, <<Call("topology.get_bond_graph", ""),
                   Call("topology.get_bonds", ""),
                   Call("topology.get_angles", ""),
                   Call("topology.get_nonints", ""),
                   Call("topology.get_torsions", ""),
                   Call("topology.get_outofplanes", "")>>)

\* Molecule.get_topology
get_topology(st) ==
    RunSteps(st, <<Call("topology.get_bond_graph", ""),
                   Call("topology.get_bonds", ""),
                   Call("topology.get_angles", ""),
                   Call("topology.get_torsions", ""),
                   Call("topology.get_outofplanes", ""),
                   Call("topology.get_nonints", "")>>)

\* get_energy with the totals summed before the boundary term is evaluated
get_energy_totals_early(st, kintype) ==
    RunSteps(st, <<Call("energy.get_e_bonds", ""),
                   Call("energy.get_e_angles", ""),
                   Call("energy.get_e_torsions", ""),
                   Call("energy.get_e_outofplanes", ""),
                   Call("energy.get_e_nonbonded", ""),
                   Call("energy.get_e_totals", ""),
                   Call("energy.get_e_bound", ""),
                   Call("energy.get_e_kinetic", kintype)>>)

\* get_energy with topology.get_bonds called in place of energy.get_e_bonds
get_energy_rebuilds_bonds(st, kintype) ==
    RunSteps(st, <<Call("topology.get_bonds", ""),
                   Call("energy.get_e_angles", ""),
                   Call("energy.get_e_torsions", ""),
                   Call("energy.get_e_outofplanes", ""),
                   Call("energy.get_e_nonbonded", ""),
                   Call("energy.get_e_bound", ""),
                   Call("energy.get_e_kinetic", kintype),
                   Call("energy.get_e_totals", "")>>)

\* Molecule.get_energy(kintype)
get_energy(st, kintype) ==
    RunSteps(st, <<Call("energy.get_e_bonds", ""),
                   Call("energy.get_e_angles", ""),
                   Call("energy.get_e_torsions", ""),
                   Call("energy.get_e_outofplanes", ""),
                   Call("energy.get_e_nonbonded", ""),
                   Call("energy.get_e_bound", ""),
                   Call("energy.get_e_kinetic", kintype),
                   Call("energy.get_e_totals", "")>>)

\* Molecule.get_analytic_gradient
get_analytic_gradient(st) ==
    RunSteps(st, <<Call("gradient.get_g_bonds", ""),
                   Call("gradient.get_g_angles", ""),
                   Call("gradient.get_g_torsions", ""),
                   Call("gradient.get_g_outofplanes", ""),
                   Call("gradient.get_g_nonbonded", ""),
                   Call("gradient.get_g_bound", ""),
                   Call("gradient.get_g_totals", "")>>)

\* get_numerical_gradient without the totals step
get_numerical_gradient_no_totals(st) ==
    RunSteps(st, <<Call("gradient.get_g_numerical", "")>>)

\* Molecule.get_numerical_gradient
get_numerical_gradient(st) ==
    RunSteps(st, <<Call("gradient.get_g_numerical", ""),
                   Call("gradient.get_g_totals", "")>>)

\* get_gradient with the numerical gradient as the fallback of every
\* selector other than 'analytic'
get_gradient_fallback(st, grad_type) ==
    LET st1 == [st EXCEPT !.m = SetAttr(st.m, "grad_type", grad_type)]
    IN IF grad_type = "analytic" THEN get_analytic_gradient(st1)
       ELSE get_numerical_gradient(st1)

\* Molecule.get_gradient(grad_type)
get_gradient(st, grad_type) ==
    LET st1 == [st EXCEPT !.m = SetAttr(st.m, "grad_type", grad_type)]
    IN IF grad_type = "analytic" THEN get_analytic_gradient(st1)
       ELSE IF grad_type = "numerical" THEN get_numerical_gradient(st1)
       ELSE Fatal(st1, <<"Error: grad type (", grad_type, ") not recognized!">>)

\* Molecule.get_temperature, get_pressure, get_volume
get_temperature(st) == RunSteps(st, <<Call("energy.get_temperature", "")>>)

get_pressure(st) == RunSteps(st, <<Call("gradient.get_pressure", "")>>)

get_volume(st) == RunSteps(st, <<Call("geomcalc.get_volume", "")>>)

\* Molecule.__init__(infile_name), lines 200-238: the attributes before input
NewMolecule(infile_name) ==
    [infile |-> infile_name,
     filetype |-> LastOf(Split(infile_name, ".")),
     name |-> Split(LastOf(Split(infile_name, "/")), ".")[1],
     atoms |-> <<>>,
     bonds |-> <<>>,
     angles |-> <<>>,
     torsions |-> <<>>,
     outofplanes |-> <<>>,
     nonints |-> {},
     dielectric |-> 1,
     n_atoms |-> 0,
     n_bonds |-> 0,
     n_angles |-> 0,
     n_torsions |-> 0,
     n_outofplanes |-> 0,
     mass |-> 0,
     k_box |-> 0,
     bound |-> 0,
     boundtype |-> "none",
     origin |-> Zeros3,
     vol |-> Inf,
     temp |-> Num(0),
     press |-> Num(0),
     virial |-> 0,
     e_bonds |-> 0,
     e_angles |-> 0,
     e_torsions |-> 0,
     e_outofplanes |-> 0,
     e_bonded |-> 0,
     e_vdw |-> 0,
     e_elst |-> 0,
     e_nonbonded |-> 0,
     e_bound |-> 0,
     e_potential |-> 0,
     e_kinetic |-> 0,
     e_total |-> 0]

\* lines 240-244: input and topology by file type
ReadInput(st) ==
    IF st.m.filetype = <<"xyzq">> THEN get_topology(read_in_xyzq(st))
    ELSE IF st.m.filetype = <<"prm">> THEN read_in_prm(st)
    ELSE st

GradArrays ==
    <<"g_bonds", "g_angles", "g_torsions", "g_outofplanes", "g_bonded", "g_vdw",
      "g_elst", "g_nonbonded", "g_total">>

\* lines 246-254: every gradient array is numpy.zeros((n_atoms, 3))
RECURSIVE ZeroArrays(_, _)
ZeroArrays(m, names) ==
    IF Len(names) = 0 THEN m
    ELSE ZeroArrays(SetAttr(m, Head(names), ZerosN3(m.n_atoms)), Tail(names))

Molecule__init__(infile_name, fs) ==
    LET st == ReadInput(Machine(NewMolecule(infile_name), fs))
    IN [st EXCEPT !.m = ZeroArrays(st.m, GradArrays)]

(***************************************************************************)
(* The Molecule state machine: construction, then the driver's calls       *)
(***************************************************************************)
\* Number of atoms of the largest input file.
MaxAtoms == 4

\* Number of caller operations other than get_energy and get_gradient
\* (driver steps, setters, direct calls of the other methods) explored.
MaxMoves == 1

\* displacements of a driver step, one lattice unit
Nudges == {<<1, 0, 0>>, <<0, -1, 0>>}

MolTypes == {<<"C", "T">>, <<"H", "C">>}

\* lattice positions of the geometries topology derivation is explored on
TopoPos == {<<0, 0, 0>>, <<1, 0, 0>>, <<2, 0, 0>>, <<1, 1, 0>>, <<2, 1, 0>>}

AtomLines == [attype : MolTypes, coords : TopoPos, charge : {1}]

\* the state a method call leaves; cost is what the call adds to `moves`
Finish(st, call, arg, cost) ==
    /\ mol' = st.m
    /\ trace' = st.tr
    /\ out' = st.out
    /\ pc' = IF st.status = "ok" THEN "ready" ELSE "exit"
    /\ last' = [call |-> call, arg |-> arg]
    /\ topoRuns' = topoRuns + Cardinality({k \in DOMAIN st.tr : st.tr[k] \in TopologySteps})
    /\ moves' = moves + cost
    /\ UNCHANGED <<file, nops, atomVars, torVars>>

Construct ==
    /\ pc = "new"
    /\ Finish(Molecule__init__(file.infile, file), "__init__", "", 0)

GetEnergy ==
    /\ pc = "ready"
    /\ \E kintype \in KinTypes \cup {"verlet"} :
          Finish(get_energy(Machine(mol, file), kintype), "get_energy", kintype, 0)

GetGradient ==
    /\ pc = "ready"
    /\ \E grad_type \in {"analytic", "numerical", "Analytic", ""} :
          Finish(get_gradient(Machine(mol, file), grad_type), "get_gradient", grad_type, 0)

\* The input, topology and gradient methods called directly on a constructed
\* Molecule, and the methods of the derived quantities.  Such a call is the
\* last operation of the caller other than get_energy and get_gradient.
GetAnalyticGradient ==
    /\ pc = "ready"
    /\ moves < MaxMoves
    /\ Finish(get_analytic_gradient(Machine(mol, file)), "get_analytic_gradient", "",
              MaxMoves - moves)

GetNumericalGradient ==
    /\ pc = "ready"
    /\ moves < MaxMoves
    /\ Finish(get_numerical_gradient(Machine(mol, file)), "get_numerical_gradient", "",
              MaxMoves - moves)

ReadInXyzq ==
    /\ pc = "ready"
    /\ moves < MaxMoves
    /\ Finish(read_in_xyzq(Machine(mol, file)), "read_in_xyzq", "", MaxMoves - moves)

ReadInPrm ==
    /\ pc = "ready"
    /\ moves < MaxMoves
    /\ Finish(read_in_prm(Machine(mol, file)), "read_in_prm", "", MaxMoves - moves)

GetTopology ==
    /\ pc = "ready"
    /\ moves < MaxMoves
    /\ Finish(get_topology(Machine(mol, file)), "get_topology", "", MaxMoves - moves)

GetTemperature ==
    /\ pc = "ready"
    /\ moves < MaxMoves
    /\ Finish(get_temperature(Machine(mol, file)), "get_temperature", "", MaxMoves - moves)

GetPressure ==
    /\ pc = "ready"
    /\ moves < MaxMoves
    /\ Finish(get_pressure(Machine(mol, file)), "get_pressure", "", MaxMoves - moves)

GetVolume ==
    /\ pc = "ready"
    /\ moves < MaxMoves
    /\ Finish(get_volume(Machine(mol, file)), "get_volume", "", MaxMoves - moves)

\* A setter `self.<field> = v` of a record of one of the Molecule's term
\* lists.  The caller adjusts a record before any other operation and then
\* only evaluates.
TermSet(name, list, field, v) ==
    /\ pc = "ready"
    /\ moves = 0
    /\ moves < MaxMoves
    /\ \E k \in DOMAIN mol[list] :
          mol' = [mol EXCEPT ![list][k] = SetAttr(@, field, v)]
    /\ moves' = MaxMoves
    /\ last' = [call |-> name, arg |-> ""]
    /\ UNCHANGED <<file, pc, trace, out, topoRuns, nops, atomVars, torVars>>

\* class Bond
bond_set_at1 == \E v \in {2} : TermSet("Bond.set_at1", "bonds", "at1", v)

bond_set_at2 == \E v \in {1} : TermSet("Bond.set_at2", "bonds", "at2", v)

bond_set_r_ij == \E v \in {4} : TermSet("Bond.set_r_ij", "bonds", "r_ij", v)

bond_set_r_eq == \E v \in {2} : TermSet("Bond.set_r_eq", "bonds", "r_eq", v)

bond_set_k_b == \E v \in {3} : TermSet("Bond.set_k_b", "bonds", "k_b", v)

\* class Angle
angle_set_at1 == \E v \in {2} : TermSet("Angle.set_at1", "angles", "at1", v)

angle_set_at2 == \E v \in {1} : TermSet("Angle.set_at2", "angles", "at2", v)

angle_set_at3 == \E v \in {1} : TermSet("Angle.set_at3", "angles", "at3", v)

angle_set_a_ijk == \E v \in {4} : TermSet("Angle.set_a_ijk", "angles", "a_ijk", v)

angle_set_a_eq == \E v \in {2} : TermSet("Angle.set_a_eq", "angles", "a_eq", v)

angle_set_k_a == \E v \in {3} : TermSet("Angle.set_k_a", "angles", "k_a", v)

\* class Outofplane
oop_set_at1 == \E v \in {2} : TermSet("Outofplane.set_at1", "outofplanes", "at1", v)

oop_set_at2 == \E v \in {1} : TermSet("Outofplane.set_at2", "outofplanes", "at2", v)

oop_set_at3 == \E v \in {1} : TermSet("Outofplane.set_at3", "outofplanes", "at3", v)

oop_set_at4 == \E v \in {1} : TermSet("Outofplane.set_at4", "outofplanes", "at4", v)

oop_set_o_ijkl == \E v \in {4} : TermSet("Outofplane.set_o_ijkl", "outofplanes", "o_ijkl", v)

oop_set_v_n == \E v \in {3} : TermSet("Outofplane.set_v_n", "outofplanes", "v_n", v)

\* The driver updates the atoms in turn between calls: a step moves atom
\* moves + 1 by one lattice unit and sets its velocity to the displacement
\* over half a time unit.
DriverStep ==
    /\ pc = "ready"
    /\ moves < MaxMoves
    /\ moves < mol.n_atoms
    /\ \E d \in Nudges :
          LET i == moves + 1
              p == Sub(mol.atoms[i].coords, Sub(Zeros3, d))
          IN mol' = [mol EXCEPT !.atoms[i] =
                        SetAttr(SetAttr(mol.atoms[i], "coords", p), "vels",
                                Sub(Sub(p, mol.atoms[i].coords),
                                    Sub(mol.atoms[i].coords, p)))]
    /\ moves' = moves + 1
    /\ last' = [call |-> "driver", arg |-> ""]
    /\ UNCHANGED <<file, pc, trace, out, topoRuns, nops, atomVars, torVars>>

\* The driver configures a spherical boundary before the first evaluation.
SetBoundary ==
    /\ pc = "ready"
    /\ last.call = "__init__"
    /\ mol.boundtype = "none"
    /\ mol' = [mol EXCEPT !.boundtype = "sphere", !.bound = 1, !.k_box = 1]
    /\ last' = [call |-> "boundary", arg |-> ""]
    /\ UNCHANGED <<file, pc, trace, out, moves, topoRuns, nops, atomVars, torVars>>

\* the sample molecules: a 4-atom chain, a 4-ring, a centre with three
\* neighbours, a bent triatomic, and a bent triatomic with a fourth atom
\* bonded to none of its atoms
line(t, p) == [attype |-> t, coords |-> p, charge |-> 1]
Chain4 ==
    <<line(<<"H", "C">>, <<0, 0, 0>>), line(<<"C", "T">>, <<1, 0, 0>>),
      line(<<"C", "T">>, <<2, 0, 0>>), line(<<"H", "C">>, <<2, 1, 0>>)>>
Ring4 ==
    <<line(<<"C", "T">>, <<1, 0, 0>>), line(<<"C", "T">>, <<2, 0, 0>>),
      line(<<"C", "T">>, <<2, 1, 0>>), line(<<"C", "T">>, <<1, 1, 0>>)>>
Star4 ==
    <<line(<<"H", "C">>, <<0, 0, 0>>), line(<<"C", "T">>, <<1, 0, 0>>),
      line(<<"H", "C">>, <<2, 0, 0>>), line(<<"H", "C">>, <<1, 0, 1>>)>>
Bent3 ==
    <<line(<<"H", "C">>, <<1, 1, 0>>), line(<<"C", "T">>, <<1, 0, 0>>),
      line(<<"H", "C">>, <<2, 0, 0>>)>>

BentFar4 == Bent3 \o <<line(<<"H", "C">>, <<2, 1, 0>>)>>

\* the input files of the full state machine: geometry files, a parameter
\* file, a file of another type, and a file name without a '.'
Files ==
    {[infile |-> <<"mol", ".", "xyzq">>, lines |-> ls] : ls \in {Chain4, Ring4, Star4, BentFar4}}
    \cup {[infile |-> <<"geom", "/", "c2h2", ".", "prm">>, lines |-> Chain4],
          [infile |-> <<"out", ".", "log">>, lines |-> Bent3],
          [infile |-> <<"xyzq">>, lines |-> Bent3]}

MolStart ==
    /\ pc = "new"
    /\ mol = [infile |-> <<>>]
    /\ trace = <<>>
    /\ out = <<>>
    /\ last = [call |-> "none", arg |-> ""]
    /\ moves = 0
    /\ topoRuns = 0
    /\ nops = 0
    /\ AtomIdle
    /\ TorIdle

\* the full state machine starts from a sample molecule under any file name
Init ==
    /\ file \in Files
    /\ MolStart

\* topology derivation starts from every geometry file of up to MaxAtoms atoms
\* on the lattice, the first atom at the centre position
InitTopo ==
    /\ \E n \in 1..MaxAtoms : \E ls \in [1..n -> AtomLines] :
          /\ ls[1].coords = <<1, 0, 0>>
          /\ file = [infile |-> <<"mol", ".", "xyzq">>, lines |-> ls]
    /\ MolStart

Next ==
    \/ Construct
    \/ GetEnergy
    \/ GetGradient
    \/ GetAnalyticGradient
    \/ GetNumericalGradient
    \/ ReadInXyzq
    \/ ReadInPrm
    \/ GetTopology
    \/ GetTemperature
    \/ GetPressure
    \/ GetVolume
    \/ bond_set_at1
    \/ bond_set_at2
    \/ bond_set_r_ij
    \/ bond_set_r_eq
    \/ bond_set_k_b
    \/ angle_set_at1
    \/ angle_set_at2
    \/ angle_set_at3
    \/ angle_set_a_ijk
    \/ angle_set_a_eq
    \/ angle_set_k_a
    \/ oop_set_at1
    \/ oop_set_at2
    \/ oop_set_at3
    \/ oop_set_at4
    \/ oop_set_o_ijkl
    \/ oop_set_v_n
    \/ DriverStep
    \/ SetBoundary

NextTopo == Construct

vars == <<heap, atom, aerr, aop, apre, nops, tor, top, tpre,
          file, mol, pc, trace, out, last, moves, topoRuns>>

SpecAtom == InitAtom /\ [][NextAtom]_vars

SpecTorsion == InitTorsion /\ [][NextTorsion]_vars

Spec == Init /\ [][Next]_vars

SpecTopo == InitTopo /\ [][NextTopo]_vars

(***************************************************************************)
(* Claims about Atom and Torsion                                           *)
(***************************************************************************)
\* The contents of the arrays an Atom's coords and pcoords are bound to.
CoordsOf(a, h) == h[a.coords]
PCoordsOf(a, h) == h[a.pcoords]

\* C7: Torsion.set_nfold(nfold) sets the periodicity, the attribute n that the
\* constructor initialised from its nfold argument, to the new value and
\* leaves every other attribute of the Torsion unchanged.
C7_SetNfoldSetsPeriodicity ==
    top.op = "set_nfold" =>
        /\ tor.n = top.arg
        /\ DOMAIN tor = DOMAIN tpre
        /\ \A k \in DOMAIN tpre \ {"n"} : tor[k] = tpre[k]

\* C8: for every index in 0..2 and every value coord, Atom.set_coord(index,
\* coord) completes without error, sets component index of the coordinates to
\* coord, and leaves the other components and every other attribute unchanged.
C8_SetCoordSetsComponent ==
    aop.op = "set_coord" =>
        /\ aerr = "none"
        /\ CoordsOf(atom, heap)[aop.index + 1] = aop.arg
        /\ \A i \in (1..3) \ {aop.index + 1} :
              CoordsOf(atom, heap)[i] = CoordsOf(apre.atom, apre.heap)[i]
        /\ atom = apre.atom
        /\ PCoordsOf(atom, heap) = PCoordsOf(apre.atom, apre.heap)

\* C9: an in-place change of a component of the current coordinates does not
\* change the previous-step coordinates pcoords.
C9_PCoordsIndependent ==
    aop.op = "coords_setitem" =>
        PCoordsOf(atom, heap) = PCoordsOf(apre.atom, apre.heap)

\* C10: after construction and any sequence of setters, sreps squared equals
\* eps and covrad is the covalent radius of the current element.
C10_DerivedFieldsAgree ==
    atom.attype # <<>> =>
        /\ atom.sreps * atom.sreps = atom.eps
        /\ atom.covrad = GetCovRad(atom.element)

(***************************************************************************)
(* Claims about Molecule                                                   *)
(***************************************************************************)
FromGeometry == pc # "new" /\ mol.filetype = <<"xyzq">>

\* C1: for every grad_type other than 'analytic' and 'numerical',
\* get_gradient(grad_type) ends in the fatal state, reports the invalid
\* selector value, and runs no gradient engine step.
C1_BadGradTypeIsFatal ==
    (last.call = "get_gradient" /\ last.arg \notin {"analytic", "numerical"}) =>
        /\ pc = "exit"
        /\ out = <<(<<"Error: grad type (", last.arg, ") not recognized!">>)>>
        /\ \A k \in DOMAIN trace : trace[k] \notin GradientSteps

C1_Witness ==
    /\ last.call = "get_gradient"
    /\ last.arg = "Analytic"
    /\ pc = "exit"
    /\ moves = 1

\* the sum of the seven category subtotals bonds + angles + torsions +
\* outofplanes + vdw + elst + bound
SevenSum(m) ==
    m.e_bonds + m.e_angles + m.e_torsions + m.e_outofplanes + m.e_vdw + m.e_elst + m.e_bound

\* C2 as stated: after every get_energy call the total energy e_total equals
\* the sum of the seven category subtotals computed in that call.
C2_TotalEnergyIsSevenSum ==
    (pc = "ready" /\ last.call = "get_energy") => mol.e_total = SevenSum(mol)

\* C2, amended: after every get_energy call, repeated calls included, the
\* potential total e_potential equals the sum of the seven category
\* subtotals, each of them evaluated in that call at the current coordinates,
\* the totals step being the last step of the call; the total energy e_total
\* is that sum plus the kinetic energy of the same call, so it equals the sum
\* of the seven exactly when the kinetic energy is zero.
C2_TotalIsSumOfSubtotals ==
    (pc = "ready" /\ last.call = "get_energy") =>
        /\ mol.e_potential = SevenSum(mol)
        /\ mol.e_bonds = EBondsAt(mol, Coords(mol))
        /\ mol.e_angles = EAnglesAt(mol, Coords(mol))
        /\ mol.e_torsions = ETorsionsAt(mol, Coords(mol))
        /\ mol.e_outofplanes = EOutofplanesAt(mol, Coords(mol))
        /\ mol.e_vdw = EVdwAt(mol, Coords(mol))
        /\ mol.e_elst = EElstAt(mol, Coords(mol))
        /\ mol.e_bound = EBoundAt(mol, Coords(mol))
        /\ mol.e_total = SevenSum(mol) + mol.e_kinetic
        /\ (mol.e_total = SevenSum(mol)) <=> (mol.e_kinetic = 0)
        /\ trace[Len(trace)] = "energy.get_e_totals"
        /\ \A k \in 1..(Len(trace) - 1) : trace[k] # "energy.get_e_totals"

\* a second evaluation, after the driver moved an atom, with every bonded
\* category, the van der Waals term and the boundary term nonzero
C2_Witness ==
    /\ pc = "ready"
    /\ last.call = "get_energy"
    /\ moves = 1
    /\ mol.e_bonds # 0
    /\ mol.e_angles # 0
    /\ mol.e_vdw # 0
    /\ mol.e_bound # 0
    /\ mol.e_kinetic # 0

\* the shape (n_atoms, 3)
HasShape(A, n) == Len(A) = n /\ \A i \in 1..n : Len(A[i]) = 3

\* C3: after every get_gradient call in 'analytic' or 'numerical' mode each
\* of the nine per-atom gradient arrays has shape n_atoms x 3 and is the value
\* the current coordinates and topology determine, whatever it held before;
\* so two calls on unchanged coordinates leave equal arrays.  The arrays have
\* that shape after construction as well.
C3_GradientsRecomputed ==
    /\ (pc = "ready" /\ last.call \in {"__init__", "get_gradient"}) =>
          \A k \in DOMAIN GradArrays : HasShape(mol[GradArrays[k]], mol.n_atoms)
    /\ (pc = "ready" /\ last.call = "get_gradient") =>
          /\ mol.g_bonds = Grad("bonds", mol)
          /\ mol.g_angles = Grad("angles", mol)
          /\ mol.g_torsions = Grad("torsions", mol)
          /\ mol.g_outofplanes = Grad("outofplanes", mol)
          /\ mol.g_vdw = Grad("vdw", mol)
          /\ mol.g_elst = Grad("elst", mol)
          /\ mol.g_bonded = AddArr(AddArr(AddArr(mol.g_bonds, mol.g_angles),
                                          mol.g_torsions), mol.g_outofplanes)
          /\ mol.g_nonbonded = AddArr(mol.g_vdw, mol.g_elst)
          /\ mol.g_total = AddArr(AddArr(mol.g_bonded, mol.g_nonbonded),
                                  Grad("bound", mol))

\* a numerical gradient taken after the driver moved an atom, nonzero
C3_Witness ==
    /\ pc = "ready"
    /\ last.call = "get_gradient"
    /\ last.arg = "numerical"
    /\ moves = 1
    /\ mol.n_atoms = 4
    /\ mol.g_bonds # ZerosN3(4)
    /\ mol.g_total # ZerosN3(4)

\* the pairs a bonded term covers
BondPairs(m) == {{m.bonds[k].at1, m.bonds[k].at2} : k \in DOMAIN m.bonds}
AnglePairs(m) == {{m.angles[k].at1, m.angles[k].at3} : k \in DOMAIN m.angles}
TorsionPairs(m) == {{m.torsions[k].at1, m.torsions[k].at4} : k \in DOMAIN m.torsions}

\* C4: after get_topology every pair of distinct atoms is either in the
\* exclusion set or scored in nonbonded evaluation, never both, and it is in
\* the exclusion set exactly if it is the two atoms of a Bond, the ends of an
\* Angle or the ends of a Torsion.
C4_ExclusionsExact ==
    FromGeometry =>
        /\ mol.nonints \subseteq AllPairs(mol)
        /\ \A p \in AllPairs(mol) :
              /\ (p \in mol.nonints) # (p \in NonbondedPairs(mol))
              /\ (p \in mol.nonints) <=>
                    (p \in BondPairs(mol) \cup AnglePairs(mol) \cup TorsionPairs(mol))

\* a chain: a pair excluded only as the ends of a torsion
C4_Witness ==
    /\ FromGeometry
    /\ \E p \in mol.nonints : p \notin BondPairs(mol) \cup AnglePairs(mol)

Triple(a) == <<a.at1, a.at2, a.at3>>
Quad(t) == <<t.at1, t.at2, t.at3, t.at4>>
Term(t) == <<t.v_n, t.gam, t.n>>
Mirror(q) == [i \in DOMAIN q |-> q[Len(q) + 1 - i]]

\* the bond graph is a chain of four atoms
IsChain4(m) ==
    /\ m.n_atoms = 4
    /\ m.n_bonds = 3
    /\ \A i \in 1..4 : Cardinality(m.bond_graph[i]) \in {1, 2}

\* C5: topology derivation emits no two Angles that are equal or mirror
\* images as triples, and no two Torsions with the same Fourier term that are
\* equal or mirror images as quadruples; a 4-atom chain yields exactly two
\* angles and one torsion quadruple, with one Torsion per Fourier term.
C5_NoMirroredTerms ==
    FromGeometry =>
        /\ \A k, l \in DOMAIN mol.angles :
              k # l => /\ Triple(mol.angles[k]) # Triple(mol.angles[l])
                       /\ Triple(mol.angles[k]) # Mirror(Triple(mol.angles[l]))
        /\ \A k, l \in DOMAIN mol.torsions :
              (k # l /\ Term(mol.torsions[k]) = Term(mol.torsions[l])) =>
                  /\ Quad(mol.torsions[k]) # Quad(mol.torsions[l])
                  /\ Quad(mol.torsions[k]) # Mirror(Quad(mol.torsions[l]))
        /\ IsChain4(mol) =>
              /\ mol.n_angles = 2
              /\ Len(mol.angles) = 2
              /\ Cardinality({Quad(mol.torsions[k]) : k \in DOMAIN mol.torsions}) = 1
              /\ \A k \in DOMAIN mol.torsions :
                    Len(mol.torsions) =
                        Len(TorsionParam(Typ(mol, mol.torsions[k].at1),
                                         Typ(mol, mol.torsions[k].at2),
                                         Typ(mol, mol.torsions[k].at3),
                                         Typ(mol, mol.torsions[k].at4)))

\* a chain of four atoms whose torsion has two Fourier terms
C5_Witness ==
    /\ FromGeometry
    /\ IsChain4(mol)
    /\ mol.n_torsions = 2

\* the steps of a construction from geometry input
ConstructionTrace ==
    <<"fileio.get_geom", "topology.get_bond_graph", "topology.get_bonds",
      "topology.get_angles", "topology.get_torsions", "topology.get_outofplanes",
      "topology.get_nonints">>

\* the calls that are neither the constructor nor get_topology itself
NoTopologyCall(call) == call \notin {"none", "__init__", "get_topology"}

\* the Molecule methods, other than get_topology, called after construction
OtherMethods ==
    {"get_energy", "get_gradient", "get_analytic_gradient", "get_numerical_gradient",
     "read_in_xyzq", "read_in_prm", "get_temperature", "get_pressure", "get_volume"}

\* C6: for a Molecule built from geometry input, construction reads the atom
\* data and then runs the topology steps once each, in the order bond graph,
\* bonds, angles, torsions, out-of-plane terms, exclusions, before any
\* evaluation; and no later get_energy or get_gradient call (nor any call
\* other than get_topology itself) runs a topology step, so the number of
\* topology steps run stays what it was.
C6_TopologyOnce ==
    /\ [](FromGeometry =>
            /\ last.call = "__init__" => (trace = ConstructionTrace /\ topoRuns = 6)
            /\ last.call \in OtherMethods =>
                  \A k \in DOMAIN trace : trace[k] \notin TopologySteps)
    /\ [][NoTopologyCall(last'.call) => topoRuns' = topoRuns]_vars

\* a gradient call after an energy call and a move
C6_Witness ==
    /\ FromGeometry
    /\ last.call = "get_gradient"
    /\ pc = "ready"
    /\ moves = 1
    /\ mol.e_total # 0
    /\ topoRuns = 6

====
